---- MODULE Spec2Model ----
(***************************************************************************)
(* A model of pngme-rs: the 4-byte chunk type (src/src/chunk_type.rs), the *)
(* chunk record with its CRC and wire layout (src/src/chunk.rs) and the    *)
(* container that holds the signature and the chunks (src/src/png.rs, of   *)
(* which only the callers in src/src/commands.rs are at hand).             *)
(*                                                                         *)
(* Bytes are naturals 0..255 and a byte string (Vec<u8>, &[u8], &str) is a *)
(* sequence of them.  TLC's integers are 32-bit signed, so a u32 or usize  *)
(* is kept as a pair <<hi, lo>> of 16-bit limbs, value hi * 65536 + lo: a  *)
(* u32 has hi < 65536, a usize may have a larger hi.                       *)
(***************************************************************************)
EXTENDS Integers, Sequences, FiniteSets, TLC

\* ------------------------------------------------------------ integers

\* The weight of the high limb of a <<hi, lo>> pair.
Limb == 2 ^ 16

\* usize of a small natural (a slice's or a Vec's len()).
usize(n) == <<n \div Limb, n % Limb>>

\* `x as u32` of a usize: the value modulo 2^32.
as_u32(n) == <<n[1] % Limb, n[2]>>

\* `x as usize` of a u32 on a 64-bit target: zero extension.
as_usize(x) == x

\* a + b on usize.
usize_add(a, b) == <<a[1] + b[1] + ((a[2] + b[2]) \div Limb), (a[2] + b[2]) % Limb>>

\* a < b on usize.
usize_lt(a, b) == a[1] < b[1] \/ (a[1] = b[1] /\ a[2] < b[2])

\* u32::to_be_bytes.
to_be_bytes(x) == <<x[1] \div 256, x[1] % 256, x[2] \div 256, x[2] % 256>>

\* u32::from_be_bytes.
from_be_bytes(b) == <<b[1] * 256 + b[2], b[3] * 256 + b[4]>>

\* ---------------------------------------------------------------- CRC

\* Bit i (weight 2^i) of a natural.
Bit(n, i) == (n \div (2 ^ i)) % 2

\* a ^ b on 4 bits: row a + 1, column b + 1.
XorNibble ==
    <<
      <<0, 1, 2, 3, 4, 5, 6, 7, 8, 9, 10, 11, 12, 13, 14, 15>>,
      <<1, 0, 3, 2, 5, 4, 7, 6, 9, 8, 11, 10, 13, 12, 15, 14>>,
      <<2, 3, 0, 1, 6, 7, 4, 5, 10, 11, 8, 9, 14, 15, 12, 13>>,
      <<3, 2, 1, 0, 7, 6, 5, 4, 11, 10, 9, 8, 15, 14, 13, 12>>,
      <<4, 5, 6, 7, 0, 1, 2, 3, 12, 13, 14, 15, 8, 9, 10, 11>>,
      <<5, 4, 7, 6, 1, 0, 3, 2, 13, 12, 15, 14, 9, 8, 11, 10>>,
      <<6, 7, 4, 5, 2, 3, 0, 1, 14, 15, 12, 13, 10, 11, 8, 9>>,
      <<7, 6, 5, 4, 3, 2, 1, 0, 15, 14, 13, 12, 11, 10, 9, 8>>,
      <<8, 9, 10, 11, 12, 13, 14, 15, 0, 1, 2, 3, 4, 5, 6, 7>>,
      <<9, 8, 11, 10, 13, 12, 15, 14, 1, 0, 3, 2, 5, 4, 7, 6>>,
      <<10, 11, 8, 9, 14, 15, 12, 13, 2, 3, 0, 1, 6, 7, 4, 5>>,
      <<11, 10, 9, 8, 15, 14, 13, 12, 3, 2, 1, 0, 7, 6, 5, 4>>,
      <<12, 13, 14, 15, 8, 9, 10, 11, 4, 5, 6, 7, 0, 1, 2, 3>>,
      <<13, 12, 15, 14, 9, 8, 11, 10, 5, 4, 7, 6, 1, 0, 3, 2>>,
      <<14, 15, 12, 13, 10, 11, 8, 9, 6, 7, 4, 5, 2, 3, 0, 1>>,
      <<15, 14, 13, 12, 11, 10, 9, 8, 7, 6, 5, 4, 3, 2, 1, 0>>
    >>

\* a ^ b on bytes, a nibble at a time.
XorByte(a, b) ==
    XorNibble[(a \div 16) + 1][(b \div 16) + 1] * 16 + XorNibble[(a % 16) + 1][(b % 16) + 1]

\* a ^ b on 16 bits.
XorLimb(a, b) == XorByte(a \div 256, b \div 256) * 256 + XorByte(a % 256, b % 256)

\* a ^ b on u32.
Xor(a, b) == <<XorLimb(a[1], b[1]), XorLimb(a[2], b[2])>>

\* a >> 1 on u32.
Shr1(a) == <<a[1] \div 2, (a[1] % 2) * 32768 + (a[2] \div 2)>>

\* a >> 8 on u32.
Shr8(a) == <<a[1] \div 256, (a[1] % 256) * 256 + (a[2] \div 256)>>

\* CRC_32_ISO_HDLC: poly 0x04C11DB7 reflected (0xEDB88320), init and xorout
\* 0xFFFFFFFF, input and output reflected.
CrcPoly == <<60856, 33568>>

CrcInit == <<65535, 65535>>

CrcXorOut == <<65535, 65535>>

RECURSIVE CrcTableEntry(_, _)
\* The table entry of byte value c: k shift-and-reduce steps.
CrcTableEntry(c, k) ==
    IF k = 0 THEN c
    ELSE CrcTableEntry(IF c[2] % 2 = 1 THEN Xor(Shr1(c), CrcPoly) ELSE Shr1(c), k - 1)

\* The crate's byte-wise lookup table, entry n + 1 for byte value n.
CrcTable ==
    <<
    <<0, 0>>, <<30471, 12438>>, <<60942, 24876>>, <<39177, 20922>>,
    <<1901, 50201>>, <<28778, 62607>>, <<59747, 42293>>, <<40548, 38307>>,
    <<3803, 34866>>, <<31196, 47268>>, <<57557, 59678>>, <<38866, 55688>>,
    <<2486, 19499>>, <<32433, 31933>>, <<59320, 11527>>, <<37055, 7569>>,
    <<7607, 4196>>, <<27312, 8434>>, <<62393, 29000>>, <<33982, 16862>>,
    <<6874, 54397>>, <<28125, 58603>>, <<62676, 46417>>, <<33747, 34247>>,
    <<4972, 38998>>, <<25707, 43200>>, <<64866, 63866>>, <<35429, 51692>>,
    <<5121, 23631>>, <<25350, 27865>>, <<64015, 15715>>, <<36104, 3573>>,
    <<15214, 8392>>, <<19561, 4190>>, <<54624, 16868>>, <<41575, 29042>>,
    <<15363, 58577>>, <<19204, 54343>>, <<53773, 34301>>, <<42250, 46443>>,
    <<13749, 43258>>, <<17074, 39020>>, <<56251, 51670>>, <<44220, 63808>>,
    <<13016, 27875>>, <<17887, 23669>>, <<56534, 3535>>, <<43985, 15705>>,
    <<9945, 12460>>, <<20958, 58>>, <<51415, 20864>>, <<49104, 24854>>,
    <<8628, 62645>>, <<22195, 50211>>, <<53178, 38297>>, <<47293, 42255>>,
    <<10242, 47262>>, <<24325, 34824>>, <<50700, 55730>>, <<45323, 59684>>,
    <<12143, 31879>>, <<22632, 19473>>, <<49505, 7595>>, <<46694, 11581>>,
    <<30428, 16784>>, <<475, 28934>>, <<39122, 8380>>, <<61397, 4138>>,
    <<29105, 34185>>, <<1718, 46367>>, <<40895, 58533>>, <<59576, 54323>>,
    <<30727, 51618>>, <<3840, 63796>>, <<38409, 43150>>, <<57614, 38936>>,
    <<32618, 3515>>, <<2157, 15661>>, <<37220, 27799>>, <<58979, 23553>>,
    <<27499, 20980>>, <<7276, 24930>>, <<34149, 12504>>, <<62050, 78>>,
    <<27654, 38381>>, <<6913, 42363>>, <<33288, 62657>>, <<62735, 50263>>,
    <<26032, 55750>>, <<4791, 59728>>, <<35774, 47338>>, <<64697, 34940>>,
    <<25309, 7647>>, <<5594, 11593>>, <<36051, 31987>>, <<64468, 19557>>,
    <<19890, 24920>>, <<15029, 20942>>, <<41916, 116>>, <<54459, 12514>>,
    <<19167, 42305>>, <<15832, 38359>>, <<42193, 50285>>, <<54230, 62715>>,
    <<17257, 59754>>, <<13422, 55804>>, <<44391, 34886>>, <<55904, 47312>>,
    <<17412, 11635>>, <<13059, 7653>>, <<43530, 19551>>, <<56589, 31945>>,
    <<20485, 28988>>, <<9986, 16810>>, <<48651, 4112>>, <<51468, 8326>>,
    <<22376, 46373>>, <<8303, 34227>>, <<47462, 54281>>, <<52833, 58527>>,
    <<24286, 63758>>, <<10713, 51608>>, <<45264, 38946>>, <<51159, 43188>>,
    <<22963, 15639>>, <<11956, 3457>>, <<47037, 23611>>, <<49338, 27821>>,
    <<60856, 33568>>, <<39615, 46006>>, <<950, 57868>>, <<29873, 53914>>,
    <<60117, 18233>>, <<40402, 30639>>, <<1243, 9749>>, <<29660, 5763>>,
    <<58211, 2834>>, <<37988, 15236>>, <<3437, 27198>>, <<31338, 23208>>,
    <<58382, 53003>>, <<37641, 65437>>, <<2560, 44583>>, <<32007, 40625>>,
    <<61455, 37700>>, <<34568, 41938>>, <<7681, 62056>>, <<26886, 49918>>,
    <<63330, 22365>>, <<32869, 26571>>, <<6508, 13937>>, <<28267, 1767>>,
    <<65236, 7030>>, <<35283, 11232>>, <<4314, 31322>>, <<26589, 19148>>,
    <<63929, 57199>>, <<36542, 61433>>, <<6071, 48707>>, <<24752, 36565>>,
    <<54998, 41960>>, <<41425, 37758>>, <<14552, 49860>>, <<20447, 62034>>,
    <<53691, 26609>>, <<42684, 22375>>, <<16309, 1757>>, <<18610, 13899>>,
    <<55309, 11226>>, <<44810, 6988>>, <<13827, 19190>>, <<16644, 31328>>,
    <<57184, 61379>>, <<43111, 57173>>, <<12654, 36591>>, <<18025, 48761>>,
    <<52065, 45964>>, <<48230, 33562>>, <<9583, 53920>>, <<21096, 57910>>,
    <<52236, 30613>>, <<47883, 18179>>, <<8706, 5817>>, <<21765, 9775>>,
    <<50618, 15294>>, <<45757, 2856>>, <<11188, 23186>>, <<23731, 27140>>,
    <<49879, 65447>>, <<46544, 53041>>, <<11481, 40587>>, <<23518, 44573>>,
    <<39780, 49840>>, <<60515, 61990>>, <<30058, 41884>>, <<621, 37642>>,
    <<39945, 1705>>, <<60174, 13887>>, <<29191, 26501>>, <<1280, 22291>>,
    <<38335, 19074>>, <<58040, 31252>>, <<31665, 11182>>, <<3254, 6968>>,
    <<37586, 36507>>, <<58837, 48653>>, <<31964, 61367>>, <<3035, 57121>>,
    <<34515, 53972>>, <<61908, 57922>>, <<26845, 46072>>, <<8154, 33646>>,
    <<33214, 5837>>, <<63161, 9819>>, <<28592, 30689>>, <<6327, 18295>>,
    <<34824, 23270>>, <<65295, 27248>>, <<26118, 15306>>, <<4353, 2908>>,
    <<36709, 40703>>, <<63586, 44649>>, <<24939, 65491>>, <<5740, 53061>>,
    <<40970, 57976>>, <<55053, 53998>>, <<19972, 33620>>, <<14595, 46018>>,
    <<42855, 9825>>, <<53344, 5879>>, <<18793, 18253>>, <<15982, 30683>>,
    <<44753, 27210>>, <<55766, 23260>>, <<16607, 2918>>, <<14296, 15344>>,
    <<43452, 44627>>, <<57019, 40645>>, <<18354, 53119>>, <<12469, 65513>>,
    <<48573, 61980>>, <<51898, 49802>>, <<21427, 37680>>, <<9396, 41894>>,
    <<47824, 13829>>, <<52695, 1683>>, <<21726, 22313>>, <<9177, 26559>>,
    <<45926, 31278>>, <<50273, 19128>>, <<23912, 6914>>, <<10863, 11156>>,
    <<46091, 48695>>, <<49932, 36513>>, <<23045, 57115>>, <<11522, 61325>>
    >>

\* The register after one more input byte.
CrcUpdate(reg, byte) ==
    Xor(CrcTable[XorByte(reg[2] % 256, byte) + 1], Shr8(reg))

RECURSIVE CrcDigest(_, _, _, _)
\* The register after the bytes lo..hi have gone through CrcUpdate one after
\* the other, first to last.  The run is split in halves, the left half
\* finished before the right one starts, which keeps TLC's evaluation
\* shallow; the register is a u32 at every step.
CrcDigest(reg, bytes, lo, hi) ==
    IF lo > hi THEN reg
    ELSE IF lo = hi THEN CrcUpdate(reg, bytes[lo])
    ELSE LET mid == (lo + hi) \div 2
             left == CrcDigest(reg, bytes, lo, mid)
         IN  CASE left[1] < Limb /\ left[2] < Limb -> CrcDigest(left, bytes, mid + 1, hi)

\* crc::Crc::<u32>::new(&CRC_32_ISO_HDLC).checksum(bytes), as a u32.
checksum(bytes) == Xor(CrcDigest(CrcInit, bytes, 1, Len(bytes)), CrcXorOut)

\* ---------------------------------------------------------- ChunkType

\* b & 0b00100000.
And0x20(b) == Bit(b, 5) * 32

\* ChunkType::bytes: the raw bytes of a chunk type.
bytes(ct) == ct.code

\* ChunkType::is_critical.
is_critical(ct) == And0x20(ct.code[1]) # 32

\* ChunkType::is_public.
is_public(ct) == And0x20(ct.code[2]) # 32

\* ChunkType::is_reserved_bit_valid.
is_reserved_bit_valid(ct) == And0x20(ct.code[3]) # 32

\* is_safe_to_copy with the comparison of is_critical.
is_safe_to_copy_inverted(ct) == And0x20(ct.code[4]) # 32

\* ChunkType::is_safe_to_copy.
is_safe_to_copy(ct) == And0x20(ct.code[4]) = 32

\* is_valid_byte as the one range 'A'..='z'.
is_valid_byte_one_range(byte) == 65 <= byte /\ byte <= 122

\* u8::is_ascii_alphabetic, through ChunkType::is_valid_byte.
is_valid_byte(byte) == (65 <= byte /\ byte <= 90) \/ (97 <= byte /\ byte <= 122)

\* ChunkType::is_valid.
is_valid(ct) ==
    is_reserved_bit_valid(ct) /\ \A i \in 1..4 : is_valid_byte(bytes(ct)[i])

\* impl TryFrom<[u8; 4]> for ChunkType: stores the array, never fails.
ChunkType_try_from(value) == [tag |-> "Ok", val |-> [code |-> value]]

\* from_str with the character check before the length check.
from_str_chars_first(str) ==
    IF ~ \A i \in 1..Len(str) : is_valid_byte(str[i])
    THEN [tag |-> "IllegalCharacter"]
    ELSE IF Len(str) # 4 THEN [tag |-> "LengthError", len |-> Len(str)]
         ELSE [tag |-> "Ok", val |-> [code |-> <<str[1], str[2], str[3], str[4]>>]]

\* impl FromStr for ChunkType, on the string's bytes.
from_str(str) ==
    IF Len(str) # 4 THEN [tag |-> "LengthError", len |-> Len(str)]
    ELSE IF ~ \A i \in 1..Len(str) : is_valid_byte(str[i])
         THEN [tag |-> "IllegalCharacter"]
         ELSE [tag |-> "Ok", val |-> [code |-> <<str[1], str[2], str[3], str[4]>>]]

\* -------------------------------------------------------------- Chunk

\* Chunk::new.
Chunk_new(chunk_type, data) == [chunk_type |-> chunk_type, chunk_data |-> data]

\* `len as u32`, the body of Chunk::length, of a Vec's len().
length_of(len) == as_u32(len)

\* Chunk::length.
length(c) == length_of(usize(Len(c.chunk_data)))

\* Chunk::chunk_type.
chunk_type(c) == c.chunk_type

\* Chunk::data.
data(c) == c.chunk_data

\* crc over the data alone.
crc_of_data_only(c) == checksum(c.chunk_data)

\* Chunk::crc: the checksum of the type bytes chained with the data.
crc(c) == checksum(bytes(c.chunk_type) \o c.chunk_data)

\* as_bytes with the CRC before the data.
as_bytes_crc_first(c) ==
    to_be_bytes(length(c)) \o bytes(c.chunk_type) \o to_be_bytes(crc(c)) \o c.chunk_data

\* Chunk::as_bytes: length, type, data, crc.
as_bytes(c) ==
    to_be_bytes(length(c)) \o bytes(c.chunk_type) \o c.chunk_data \o to_be_bytes(crc(c))

\* The number of bytes Chunk::as_bytes chains for a payload of len bytes.
as_bytes_len(len) == usize_add(usize_add(usize_add(usize(4), usize(4)), len), usize(4))

\* Read::read_exact on the reader over buf at position pos, into a buffer of n
\* bytes (n a usize): the bytes and the new position, or the short-read error.
read_exact(buf, pos, n) ==
    IF usize_lt(usize(Len(buf) - pos), n) THEN [tag |-> "UnexpectedEof"]
    ELSE [tag |-> "Ok", buffer |-> SubSeq(buf, pos + 1, pos + n[2]), pos |-> pos + n[2]]

\* The comparison on the low 16 bits only.
crc_mismatch_low_half(computed, given_crc) == computed[2] # given_crc[2]

\* The comparison of the computed CRC with the one read from the wire.
crc_mismatch(computed, given_crc) == computed # given_crc

\* try_from with the payload taken as everything between the header and the
\* last 4 bytes of the input, whatever length the header declares.
Chunk_try_from_payload_to_end(value) ==
    IF Len(value) < 12 THEN [tag |-> "SmallInput"]
    ELSE
    LET ctype == ChunkType_try_from(SubSeq(value, 5, 8)).val
        new_chunk == [chunk_type |-> ctype,
                      chunk_data |-> SubSeq(value, 9, Len(value) - 4)]
    IN  IF ~is_valid(ctype) THEN [tag |-> "InvalidChunkType"]
        ELSE IF crc_mismatch(crc(new_chunk),
                             from_be_bytes(SubSeq(value, Len(value) - 3, Len(value))))
             THEN [tag |-> "InvalidCrc"]
        ELSE [tag |-> "Ok", val |-> new_chunk]

\* try_from with the type code checked after the payload and the CRC are read.
Chunk_try_from_type_checked_late(value) ==
    IF Len(value) < 12 THEN [tag |-> "SmallInput"]
    ELSE
    LET r1 == read_exact(value, 0, usize(4))
        data_length == from_be_bytes(r1.buffer)
        r2 == read_exact(value, r1.pos, usize(4))
        ctype == ChunkType_try_from(r2.buffer).val
        r3 == read_exact(value, r2.pos, as_usize(data_length))
        r4 == read_exact(value, r3.pos, usize(4))
        new_chunk == [chunk_type |-> ctype, chunk_data |-> r3.buffer]
    IN  IF r3.tag # "Ok" THEN [tag |-> "UnexpectedEof"]
        ELSE IF r4.tag # "Ok" THEN [tag |-> "UnexpectedEof"]
        ELSE IF ~is_valid(ctype) THEN [tag |-> "InvalidChunkType"]
        ELSE IF crc_mismatch(crc(new_chunk), from_be_bytes(r4.buffer))
             THEN [tag |-> "InvalidCrc"]
        ELSE [tag |-> "Ok", val |-> new_chunk]

\* impl TryFrom<&[u8]> for Chunk.
Chunk_try_from(value) ==
    IF Len(value) < 12 THEN [tag |-> "SmallInput"]
    ELSE
    LET r1 == read_exact(value, 0, usize(4))
        data_length == from_be_bytes(r1.buffer)
        r2 == read_exact(value, r1.pos, usize(4))
        ctype == ChunkType_try_from(r2.buffer).val
        r3 == read_exact(value, r2.pos, as_usize(data_length))
        r4 == read_exact(value, r3.pos, usize(4))
        new_chunk == [chunk_type |-> ctype, chunk_data |-> r3.buffer]
    IN  IF ~is_valid(ctype) THEN [tag |-> "InvalidChunkType"]
        ELSE IF r3.tag # "Ok" THEN [tag |-> "UnexpectedEof"]
        ELSE IF r4.tag # "Ok" THEN [tag |-> "UnexpectedEof"]
        ELSE IF crc_mismatch(crc(new_chunk), from_be_bytes(r4.buffer))
             THEN [tag |-> "InvalidCrc"]
        ELSE [tag |-> "Ok", val |-> new_chunk]

\* The byte layout the tests assemble by hand: a length, a type, the message
\* and a CRC of the test's choosing.
chunk_data_of(data_length, type_bytes, message_bytes, crc_value) ==
    to_be_bytes(data_length) \o type_bytes \o message_bytes \o to_be_bytes(crc_value)

\* ---------------------------------------------------------------- Png

\* The container's fixed 8-byte signature.
STANDARD_HEADER == <<137, 80, 78, 71, 13, 10, 26, 10>>

RECURSIVE Png_parse_chunks(_, _, _)
\* The parsing loop of the container: Chunk::try_from on the bytes from the
\* cursor on, the cursor advanced by 12 + L after each chunk, until the
\* buffer is exhausted; the first failure is the container's.
Png_parse_chunks(buf, pos, chunks) ==
    IF pos >= Len(buf) THEN [tag |-> "Ok", val |-> [chunks |-> chunks]]
    ELSE LET r == Chunk_try_from(SubSeq(buf, pos + 1, Len(buf)))
         IN  IF r.tag # "Ok" THEN r
             ELSE Png_parse_chunks(buf, pos + 12 + Len(r.val.chunk_data),
                                   Append(chunks, r.val))

\* impl TryFrom<&[u8]> for Png.
Png_try_from(buf) ==
    IF Len(buf) < 8 \/ SubSeq(buf, 1, 8) # STANDARD_HEADER
    THEN [tag |-> "SignatureMismatch"]
    ELSE Png_parse_chunks(buf, 8, <<>>)

RECURSIVE Png_chunk_bytes(_, _)
\* The chunks from the i-th on, each as_bytes(), in sequence order.
Png_chunk_bytes(chunks, i) ==
    IF i > Len(chunks) THEN <<>>
    ELSE as_bytes(chunks[i]) \o Png_chunk_bytes(chunks, i + 1)

\* Png::as_bytes: the signature, then every chunk.
Png_as_bytes(png) == STANDARD_HEADER \o Png_chunk_bytes(png.chunks, 1)

\* ------------------------------------------------------------- inputs

\* The longest payload, in bytes, of the enumerated chunks.
MaxPayload == 2

\* The most bytes appended after a chunk's encoding.
MaxExtra == 1

\* The most chunk encodings written to a file.
MaxChunks == 2

\* The longest string handed to from_str, in bytes.
MaxStr == 5

RECURSIVE SeqsUpTo(_, _)
\* The sequences over S of length at most n.
SeqsUpTo(S, n) ==
    IF n = 0 THEN {<<>>}
    ELSE LET shorter == SeqsUpTo(S, n - 1)
         IN  shorter \cup {Append(q, x) : q \in shorter, x \in S}

\* "RuSt", "Rust", "bLOb" and the bytes of "Ru1t".
RuSt == <<82, 117, 83, 116>>
Rust == <<82, 117, 115, 116>>
bLOb == <<98, 76, 79, 98>>
Ru1t == <<82, 117, 49, 116>>

\* "This is where your secret message will be!"
Message ==
    <<84, 104, 105, 115, 32, 105, 115, 32, 119, 104, 101, 114, 101, 32, 121,
      111, 117, 114, 32, 115, 101, 99, 114, 101, 116, 32, 109, 101, 115, 115,
      97, 103, 101, 32, 119, 105, 108, 108, 32, 98, 101, 33>>

\* A base with one position set to any byte.
OneByteSwept(base, Values) ==
    {[base EXCEPT ![p] = v] : p \in 1..4, v \in Values}

\* The arrays handed to ChunkType::try_from.
CodeInputs == OneByteSwept(RuSt, 0..255) \cup OneByteSwept(Rust, {64, 91, 96, 123})
                \cup {<<a, b, c, d>> : a, b, c, d \in {82, 117, 49}}

\* The strings handed to ChunkType::from_str, as UTF-8 bytes: short ASCII
\* strings, "RuSt" with any one ASCII byte, and two with a 2-byte character.
StrInputs == SeqsUpTo({82, 117, 83, 49}, MaxStr) \cup OneByteSwept(RuSt, 0..127)
               \cup {<<82, 195, 169, 116>>, <<195, 169>>}

\* The payloads of the enumerated chunks.
Payloads == SeqsUpTo({0, 255}, MaxPayload)

\* The type strings and arrays of the enumerated chunks.
ChunkStrs == {RuSt, Rust, bLOb}
ChunkCodes == {RuSt, Ru1t}

\* The CRC values of the hand-assembled test buffers: 2882656334, 2882656333.
TestCrcs == {<<43985, 55374>>, <<43985, 55373>>}

\* The bytes appended after an encoding.
ExtraBytes == {0}

\* What a file starts with: the signature, one with a wrong byte, a short one.
Headers == {STANDARD_HEADER, [STANDARD_HEADER EXCEPT ![2] = 81], SubSeq(STANDARD_HEADER, 1, 7)}

\* The chunks written to a file: types, payloads, and whether the CRC is right.
FileTypes == {RuSt, bLOb, Rust}
FilePayloads == {<<>>, <<0>>, <<255, 0>>}

\* Payload sizes of chunks too large to enumerate byte by byte: 0, 1, 42,
\* 2^32 - 1, 2^32, 2^32 + 1 and 2^33 + 42.
Sizes == {<<0, 0>>, <<0, 1>>, <<0, 42>>, <<65535, 65535>>, <<65536, 0>>, <<65536, 1>>,
          <<131072, 42>>}

\* -------------------------------------------------------------- state

VARIABLES
    pc,       \* what the run is doing: idle, or the stage of one scenario
    arg,      \* the last type constructor called and its input
    ctype,    \* what that constructor returned
    chunk,    \* the chunk built with Chunk::new
    wire,     \* the byte buffer handed to Chunk::try_from
    orig,     \* that buffer before a bit was flipped or bytes were cut
    edit,     \* the flip or the cut
    parsed,   \* what Chunk::try_from returned
    made,     \* the chunks written to the file, in order
    file,     \* the bytes of the file
    png,      \* what Png::try_from returned
    out,      \* what Png::as_bytes returned
    data_len  \* the payload size of a chunk too large to enumerate

vars == <<pc, arg, ctype, chunk, wire, orig, edit, parsed, made, file, png, out, data_len>>

None == [tag |-> "None"]
NoEdit == [kind |-> "none", idx |-> 0, bit |-> 0]

Init ==
    /\ pc = "idle"
    /\ arg = None
    /\ ctype = None
    /\ chunk = None
    /\ wire = <<>>
    /\ orig = <<>>
    /\ edit = NoEdit
    /\ parsed = None
    /\ made = <<>>
    /\ file = <<>>
    /\ png = None
    /\ out = <<>>
    /\ data_len = None

\* ChunkType::from_str(s).
TypeFromStr(s) ==
    /\ pc = "idle"
    /\ pc' = "chunk_type"
    /\ arg' = [fn |-> "from_str", input |-> s]
    /\ ctype' = from_str(s)
    /\ UNCHANGED <<chunk, wire, orig, edit, parsed, made, file, png, out, data_len>>

\* ChunkType::try_from(c).
TypeTryFrom(c) ==
    /\ pc = "idle"
    /\ pc' = "chunk_type"
    /\ arg' = [fn |-> "try_from", input |-> c]
    /\ ctype' = ChunkType_try_from(c)
    /\ UNCHANGED <<chunk, wire, orig, edit, parsed, made, file, png, out, data_len>>

\* Chunk::new(ChunkType::from_str(s)?, d).
NewChunkFromStr(s, d) ==
    /\ pc = "idle"
    /\ from_str(s).tag = "Ok"
    /\ pc' = "chunk"
    /\ arg' = [fn |-> "from_str", input |-> s]
    /\ ctype' = from_str(s)
    /\ chunk' = [tag |-> "Some", val |-> Chunk_new(from_str(s).val, d)]
    /\ UNCHANGED <<wire, orig, edit, parsed, made, file, png, out, data_len>>

\* Chunk::new(ChunkType::try_from(c)?, d).
NewChunkFromCode(c, d) ==
    /\ pc = "idle"
    /\ ChunkType_try_from(c).tag = "Ok"
    /\ pc' = "chunk"
    /\ arg' = [fn |-> "try_from", input |-> c]
    /\ ctype' = ChunkType_try_from(c)
    /\ chunk' = [tag |-> "Some", val |-> Chunk_new(ChunkType_try_from(c).val, d)]
    /\ UNCHANGED <<wire, orig, edit, parsed, made, file, png, out, data_len>>

\* Chunk::new with a payload of n bytes, n too large to enumerate.
NewChunkSized(n) ==
    /\ pc = "idle"
    /\ pc' = "sized"
    /\ data_len' = [tag |-> "Some", val |-> n]
    /\ UNCHANGED <<arg, ctype, chunk, wire, orig, edit, parsed, made, file, png, out>>

\* chunk.as_bytes().
AsBytes ==
    /\ pc = "chunk"
    /\ pc' = "wire"
    /\ wire' = as_bytes(chunk.val)
    /\ orig' = wire'
    /\ UNCHANGED <<arg, ctype, chunk, edit, parsed, made, file, png, out, data_len>>

\* A buffer assembled by hand, as the tests do.
HandBuilt(t, m, c) ==
    /\ pc = "idle"
    /\ pc' = "wire"
    /\ wire' = chunk_data_of(usize(Len(m)), t, m, c)
    /\ orig' = wire'
    /\ UNCHANGED <<arg, ctype, chunk, edit, parsed, made, file, png, out, data_len>>

\* More bytes follow the encoding in the buffer.
Extend(b) ==
    /\ pc = "wire"
    /\ edit = NoEdit
    /\ chunk.tag = "Some"
    /\ Len(wire) < Len(as_bytes(chunk.val)) + MaxExtra
    /\ wire' = Append(wire, b)
    /\ orig' = wire'
    /\ UNCHANGED <<pc, arg, ctype, chunk, edit, parsed, made, file, png, out, data_len>>

\* One bit of the buffer is flipped: bit k of byte i.
Flip(i, k) ==
    /\ pc = "wire"
    /\ edit = NoEdit
    /\ i \in 1..Len(wire)
    /\ wire' = [wire EXCEPT ![i] = IF Bit(@, k) = 1 THEN @ - 2 ^ k ELSE @ + 2 ^ k]
    /\ edit' = [kind |-> "flip", idx |-> i, bit |-> k]
    /\ UNCHANGED <<pc, arg, ctype, chunk, orig, parsed, made, file, png, out, data_len>>

\* The buffer is cut to its first n bytes.
Truncate(n) ==
    /\ pc = "wire"
    /\ edit = NoEdit
    /\ n < Len(wire)
    /\ wire' = SubSeq(wire, 1, n)
    /\ edit' = [kind |-> "truncate", idx |-> n, bit |-> 0]
    /\ UNCHANGED <<pc, arg, ctype, chunk, orig, parsed, made, file, png, out, data_len>>

\* Chunk::try_from(wire).
Parse ==
    /\ pc = "wire"
    /\ pc' = "parsed"
    /\ parsed' = Chunk_try_from(wire)
    /\ UNCHANGED <<arg, ctype, chunk, wire, orig, edit, made, file, png, out, data_len>>

\* A file begins.
FileHeader(h) ==
    /\ pc = "idle"
    /\ pc' = "file"
    /\ file' = h
    /\ UNCHANGED <<arg, ctype, chunk, wire, orig, edit, parsed, made, png, out, data_len>>

\* One more chunk encoding is written to the file; its CRC is the right one or
\* one with its lowest bit flipped.
FileChunk(t, d, good) ==
    /\ pc = "file"
    /\ Len(made) < MaxChunks
    /\ LET sum == checksum(t \o d)
           c == IF good THEN sum ELSE Xor(sum, <<0, 1>>)
       IN  /\ file' = file \o chunk_data_of(usize(Len(d)), t, d, c)
           /\ made' = Append(made, [type |-> t, data |-> d, crc |-> c])
    /\ UNCHANGED <<pc, arg, ctype, chunk, wire, orig, edit, parsed, png, out, data_len>>

\* Png::try_from(file).
PngParse ==
    /\ pc = "file"
    /\ pc' = "png"
    /\ png' = Png_try_from(file)
    /\ UNCHANGED <<arg, ctype, chunk, wire, orig, edit, parsed, made, file, out, data_len>>

\* png.as_bytes() of the container just parsed.
PngAsBytes ==
    /\ pc = "png"
    /\ png.tag = "Ok"
    /\ pc' = "out"
    /\ out' = Png_as_bytes(png.val)
    /\ UNCHANGED <<arg, ctype, chunk, wire, orig, edit, parsed, made, file, png, data_len>>

Next ==
    \/ pc = "idle" /\ \E s \in StrInputs : TypeFromStr(s)
    \/ pc = "idle" /\ \E c \in CodeInputs : TypeTryFrom(c)
    \/ pc = "idle" /\ \E s \in ChunkStrs, d \in Payloads : NewChunkFromStr(s, d)
    \/ pc = "idle" /\ \E c \in ChunkCodes, d \in Payloads : NewChunkFromCode(c, d)
    \/ pc = "idle" /\ NewChunkFromStr(RuSt, Message)
    \/ pc = "idle" /\ \E n \in Sizes : NewChunkSized(n)
    \/ AsBytes
    \/ pc = "idle" /\ \E c \in TestCrcs : HandBuilt(RuSt, Message, c)
    \/ pc = "wire" /\ \E b \in ExtraBytes : Extend(b)
    \/ pc = "wire" /\ \E i \in 1..Len(wire), k \in 0..7 : Flip(i, k)
    \/ pc = "wire" /\ \E n \in 0..Len(wire) : Truncate(n)
    \/ Parse
    \/ pc = "idle" /\ \E h \in Headers : FileHeader(h)
    \/ pc = "file" /\ \E t \in FileTypes, d \in FilePayloads, good \in BOOLEAN : FileChunk(t, d, good)
    \/ PngParse
    \/ PngAsBytes

Spec == Init /\ [][Next]_vars
\* ------------------------------------------------------------- claims

\* The ASCII letters, A-Z and a-z.
Letters == (65..90) \cup (97..122)

\* Bit 0x20 of a byte is clear.
Bit0x20Clear(b) == (b % 64) < 32

\* A 4-byte code of letters whose third byte has bit 0x20 clear.
TypeCodeValid(c) == (\A i \in 1..4 : c[i] \in Letters) /\ Bit0x20Clear(c[3])

\* The code c with bit 0x20 of byte p toggled.
Toggle0x20(c, p) == [c EXCEPT ![p] = IF Bit0x20Clear(@) THEN @ + 32 ELSE @ - 32]

\* C1: a chunk built with Chunk::new, encoded with as_bytes and parsed back
\* with Chunk::try_from, comes back Ok with the same type bytes, data and crc.
C1_FreshChunkRoundTrips ==
    (pc = "parsed" /\ chunk.tag = "Some" /\ wire = as_bytes(chunk.val)) =>
        /\ parsed.tag = "Ok"
        /\ bytes(chunk_type(parsed.val)) = bytes(chunk_type(chunk.val))
        /\ data(parsed.val) = data(chunk.val)
        /\ crc(parsed.val) = crc(chunk.val)

\* The payload length the accepted buffer b declares.
DeclaredLen(b) == from_be_bytes(SubSeq(b, 1, 4))[2]

\* C2: one bit flipped in the payload or in the CRC field of an accepted
\* buffer makes Chunk::try_from fail with InvalidCrc, and Chunk::try_from
\* never returns Ok for a buffer whose CRC field differs from the CRC-32 of
\* its type and payload bytes.
C2_CrcTamperDetected ==
    pc = "parsed" =>
        /\ ( /\ edit.kind = "flip"
             /\ Chunk_try_from(orig).tag = "Ok"
             /\ 8 < edit.idx
             /\ edit.idx <= 12 + DeclaredLen(orig) )
           => parsed.tag = "InvalidCrc"
        /\ parsed.tag = "Ok" =>
             from_be_bytes(SubSeq(wire, 9 + DeclaredLen(wire), 12 + DeclaredLen(wire)))
               = checksum(SubSeq(wire, 5, 8 + DeclaredLen(wire)))

\* A flipped payload bit of an accepted buffer, rejected with InvalidCrc.
C2_Witness ==
    /\ pc = "parsed"
    /\ edit.kind = "flip"
    /\ Chunk_try_from(orig).tag = "Ok"
    /\ 8 < edit.idx
    /\ edit.idx <= 8 + DeclaredLen(orig)
    /\ parsed.tag = "InvalidCrc"

\* The file is the signature followed by well-formed chunk encodings only.
FileWellFormed ==
    /\ Len(file) >= 8
    /\ SubSeq(file, 1, 8) = STANDARD_HEADER
    /\ \A i \in 1..Len(made) :
         TypeCodeValid(made[i].type) /\ made[i].crc = checksum(made[i].type \o made[i].data)

\* C3: a file that is the signature followed by N well-formed chunk
\* encodings parses into exactly those N chunks in order, and the container
\* serializes back to the same bytes.
C3_ContainerRoundTrips ==
    (pc \in {"png", "out"} /\ FileWellFormed) =>
        /\ png.tag = "Ok"
        /\ Len(png.val.chunks) = Len(made)
        /\ \A i \in 1..Len(made) :
             /\ bytes(chunk_type(png.val.chunks[i])) = made[i].type
             /\ data(png.val.chunks[i]) = made[i].data
        /\ pc = "out" => out = file

\* A file of two well-formed chunks, parsed and serialized back.
C3_Witness ==
    /\ pc = "out"
    /\ FileWellFormed
    /\ Len(made) >= 2
    /\ made[1] # made[2]
    /\ out = file

\* C4: ChunkType::try_from(c).is_valid() is true exactly when the four bytes
\* are ASCII letters and bit 0x20 of c[2] is clear, and toggling bit 0x20 of
\* c[0], c[1] or c[3] never changes it.
C4_IsValidIffLettersAndReservedBit ==
    (pc = "chunk_type" /\ arg.fn = "try_from") =>
        /\ ctype.tag = "Ok"
        /\ is_valid(ctype.val) <=> TypeCodeValid(arg.input)
        /\ \A p \in {1, 2, 4} :
             is_valid(ChunkType_try_from(Toggle0x20(arg.input, p)).val) <=> is_valid(ctype.val)

\* A code that is invalid only because of a byte next to the letter ranges.
C4_Witness ==
    /\ pc = "chunk_type"
    /\ arg.fn = "try_from"
    /\ arg.input[1] = 91
    /\ \A i \in 2..4 : arg.input[i] \in Letters
    /\ Bit0x20Clear(arg.input[3])
    /\ ~is_valid(ctype.val)
\* C5: ChunkType::from_str looks at the byte length first: LengthError with
\* the length when it is not 4, else IllegalCharacter when a byte is not an
\* ASCII letter, else Ok with the string's 4 bytes.
C5_FromStrChecksLengthFirst ==
    (pc = "chunk_type" /\ arg.fn = "from_str") =>
        IF Len(arg.input) # 4
        THEN ctype = [tag |-> "LengthError", len |-> Len(arg.input)]
        ELSE IF \E i \in 1..4 : arg.input[i] \notin Letters
             THEN ctype = [tag |-> "IllegalCharacter"]
             ELSE ctype.tag = "Ok" /\ bytes(ctype.val) = arg.input

\* A 5-byte string with a digit in it, refused for its length.
C5_Witness ==
    /\ pc = "chunk_type"
    /\ arg.fn = "from_str"
    /\ Len(arg.input) = 5
    /\ \E i \in 1..5 : arg.input[i] \notin Letters
    /\ ctype = [tag |-> "LengthError", len |-> 5]

\* C6: every ChunkType that from_str or try_from returns as Ok is valid, and
\* so is the type of every chunk built with Chunk::new.
C6_ConstructedTypeIsValid ==
    /\ (pc = "chunk_type" /\ ctype.tag = "Ok") => is_valid(ctype.val)
    /\ chunk.tag = "Some" => is_valid(chunk_type(chunk.val))

\* The hand-assembled encoding of "RuSt" and the message with the CRC c.
MessageEncoding(c) == chunk_data_of(<<0, 42>>, RuSt, Message, c)

\* C7: for "RuSt" and the 42-byte message, Chunk::new gives length 42 and
\* crc 2882656334; the encoding with that CRC is accepted and yields the same
\* length, type, payload and crc; the encoding with CRC 2882656333 is
\* rejected.
C7_MessageChecksum ==
    /\ (chunk.tag = "Some" /\ chunk.val = Chunk_new([code |-> RuSt], Message)) =>
         length(chunk.val) = <<0, 42>> /\ crc(chunk.val) = <<43985, 55374>>
    /\ (pc = "parsed" /\ wire = MessageEncoding(<<43985, 55374>>)) =>
         /\ parsed.tag = "Ok"
         /\ length(parsed.val) = <<0, 42>>
         /\ bytes(chunk_type(parsed.val)) = RuSt
         /\ data(parsed.val) = Message
         /\ crc(parsed.val) = <<43985, 55374>>
    /\ (pc = "parsed" /\ wire = MessageEncoding(<<43985, 55373>>)) => parsed.tag # "Ok"

\* The hand-assembled encoding with the right CRC, parsed.
C7_Witness ==
    /\ pc = "parsed"
    /\ chunk = None
    /\ wire = MessageEncoding(<<43985, 55374>>)
    /\ parsed.tag = "Ok"

\* C8: is_critical, is_public and is_reserved_bit_valid hold exactly when
\* bit 0x20 of byte 0, 1, 2 is clear, is_safe_to_copy exactly when bit 0x20
\* of byte 3 is set; "RuSt" is critical, not public, reserved-bit valid and
\* safe to copy.
C8_PropertyBits ==
    (pc = "chunk_type" /\ ctype.tag = "Ok") =>
        LET c == bytes(ctype.val)
        IN  /\ is_critical(ctype.val) <=> Bit0x20Clear(c[1])
            /\ is_public(ctype.val) <=> Bit0x20Clear(c[2])
            /\ is_reserved_bit_valid(ctype.val) <=> Bit0x20Clear(c[3])
            /\ is_safe_to_copy(ctype.val) <=> ~Bit0x20Clear(c[4])
            /\ c = RuSt =>
                 /\ is_critical(ctype.val)
                 /\ ~is_public(ctype.val)
                 /\ is_reserved_bit_valid(ctype.val)
                 /\ is_safe_to_copy(ctype.val)

\* "RuST" from from_str: critical, not public, reserved-bit valid, unsafe to
\* copy.
C8_Witness ==
    /\ pc = "chunk_type"
    /\ arg.fn = "from_str"
    /\ ctype.tag = "Ok"
    /\ bytes(ctype.val) = <<82, 117, 83, 84>>
    /\ is_critical(ctype.val)
    /\ ~is_public(ctype.val)
    /\ is_reserved_bit_valid(ctype.val)
    /\ ~is_safe_to_copy(ctype.val)

\* The outcome the claimed order of checks gives for the buffer b.
OutcomeInOrder(b) ==
    IF Len(b) < 12 THEN "SmallInput"
    ELSE IF ~TypeCodeValid(SubSeq(b, 5, 8)) THEN "InvalidChunkType"
    ELSE IF usize_lt(usize(Len(b) - 8), usize_add(from_be_bytes(SubSeq(b, 1, 4)), usize(4)))
         THEN "UnexpectedEof"
    ELSE IF from_be_bytes(SubSeq(b, 9 + DeclaredLen(b), 12 + DeclaredLen(b)))
              # checksum(SubSeq(b, 5, 8 + DeclaredLen(b)))
         THEN "InvalidCrc"
    ELSE "Ok"

\* C9: Chunk::try_from reports SmallInput for fewer than 12 bytes, else
\* InvalidChunkType for an invalid type code whatever the length and the CRC
\* say, else the short-read error when fewer than L + 4 bytes follow the
\* header, else InvalidCrc for a CRC that differs, else Ok.
C9_ErrorsInOrder ==
    pc = "parsed" => parsed.tag = OutcomeInOrder(wire)

\* A buffer of 12 bytes or more with a valid type, too short for the payload
\* and CRC it declares.
C9_Witness ==
    /\ pc = "parsed"
    /\ Len(wire) >= 12
    /\ TypeCodeValid(SubSeq(wire, 5, 8))
    /\ parsed.tag = "UnexpectedEof"

\* C10: length() is the number of payload bytes, the first 4 bytes of
\* as_bytes() are that number, and as_bytes() has 12 + length() bytes, for
\* every payload, those of 2^32 bytes and more included.
C10_LengthIsPayloadSize ==
    /\ chunk.tag = "Some" =>
         /\ as_usize(length(chunk.val)) = usize(Len(data(chunk.val)))
         /\ from_be_bytes(SubSeq(as_bytes(chunk.val), 1, 4)) = usize(Len(data(chunk.val)))
         /\ usize(Len(as_bytes(chunk.val))) = usize_add(usize(12), as_usize(length(chunk.val)))
    /\ data_len.tag = "Some" =>
         /\ as_usize(length_of(data_len.val)) = data_len.val
         /\ as_bytes_len(data_len.val) = usize_add(usize(12), as_usize(length_of(data_len.val)))

\* The first 12 + L bytes of the buffer b, L the length its header declares.
DeclaredPrefix(b) == SubSeq(b, 1, 12 + DeclaredLen(b))

\* C11: Chunk::try_from consumes only a prefix.  For every buffer it accepts,
\* with L the big-endian value of its first 4 bytes, as_bytes() of the result
\* is exactly the first 12 + L bytes of the buffer and equals the whole buffer
\* iff the buffer has 12 + L bytes; the bytes after position 12 + L neither
\* change the chunk (the prefix alone parses to the same one) nor cause an
\* error (an encoding of a valid chunk followed by more bytes is accepted as
\* that chunk).
C11_ConsumesOnlyPrefix ==
    /\ pc = "parsed" /\ parsed.tag = "Ok" =>
         /\ from_be_bytes(SubSeq(wire, 1, 4))[1] = 0
         /\ Len(wire) >= 12 + DeclaredLen(wire)
         /\ as_bytes(parsed.val) = DeclaredPrefix(wire)
         /\ Chunk_try_from(DeclaredPrefix(wire)) = parsed
         /\ (as_bytes(parsed.val) = wire) <=> (Len(wire) = 12 + DeclaredLen(wire))
    /\ pc = "parsed" /\ edit = NoEdit /\ chunk.tag = "Some"
         /\ is_valid(chunk_type(chunk.val)) =>
         /\ parsed.tag = "Ok"
         /\ parsed.val = chunk.val

\* An accepted buffer with a non-empty payload and a byte after its first
\* 12 + L bytes, which as_bytes() of the result does not give back.
C11_Witness ==
    /\ pc = "parsed"
    /\ parsed.tag = "Ok"
    /\ DeclaredLen(wire) > 0
    /\ Len(wire) > 12 + DeclaredLen(wire)
    /\ as_bytes(parsed.val) # wire
====
